---------------------------- MODULE Spec2Model ----------------------------
(***************************************************************************)
(* Stock / alert consistency engine of the FARLAB inventory backend.       *)
(*                                                                         *)
(* The database holds two tables that matter here: parts and alerts.       *)
(* Request handlers of routers/parts.py mutate them, services/             *)
(* alert_service.py holds the create / resolve rules, and                  *)
(* services/notification_service.py holds the process-wide rate limiter    *)
(* and the retrying sender.                                                *)
(*                                                                         *)
(* The specifications share the variables:                                 *)
(*   Spec        requests executed one at a time (each handler one step)   *)
(*   SpecJob     the requests and the scheduled summary job                *)
(*   SpecConc    requests, each in its own database session, interleaved   *)
(*               at their database round trips, and their background tasks *)
(*   SpecNotify  the notification dispatcher and its rate limiter          *)
(*   SpecLimiter the rate limiter called from several threads              *)
(*   SpecSend    the retrying sender                                       *)
(*   SpecSched   the scheduler, its job and the lifespan of the            *)
(*               application                                               *)
(*   SpecSummary the requests and the alert summary                        *)
(***************************************************************************)
EXTENDS Integers, Sequences, FiniteSets, TLC

(***************************************************************************)
(* Bounds of the model.                                                    *)
(***************************************************************************)
MaxQty    == 2      \* largest quantity_in_stock explored
MaxMin    == 1      \* largest minimum_stock_level explored
MaxDelta  == 2      \* |quantity_change| explored
MaxAlerts == 2      \* alert rows ever inserted (ids 1..MaxAlerts)
MaxTime   == 1      \* last tick of the clock in Spec
MaxConcQty   == 2   \* largest quantity_in_stock explored in SpecConc
MaxConcMin   == 1   \* largest minimum_stock_level explored in SpecConc
MaxConcDelta == 1   \* |quantity_change| explored in SpecConc
MaxThreadCalls == 3 \* calls of check_email_rate_limit one thread makes
MaxRaceTime  == 3   \* last tick of the clock in SpecLimiter
MaxSendCalls == 2   \* calls of send_email_with_retry explored

PartIds   == {1}    \* the part the requests are about (parts.id values)
Deltas    == (0 - MaxDelta)..MaxDelta
NoTime    == -1     \* a NULL timestamp (Alert.resolved_at not set)

VARIABLES
    parts,            \* committed rows of table parts: id -> row
    alerts,           \* committed rows of table alerts (a set of rows)
    nextPartId,       \* the parts.id sequence
    nextAlertId,      \* the alerts.id sequence
    now,              \* the clock
    background_tasks, \* tasks the last request handed to BackgroundTasks
    response,         \* the last request: [op, part_id, status]
    sess              \* SpecConc: the requests in flight, one database
                      \* session each (get_db opens one per request)

stockVars == <<parts, alerts, nextPartId, nextAlertId, now,
               background_tasks, response>>

VARIABLES
    email_limiter,    \* notification_service.email_limiter: the dicts
                      \* last_sent and send_count, by rate-limit key
    send_calls,       \* by key: calls of send_email_with_retry so far
    notify_result     \* how the last notification attempt ended

notifyVars == <<email_limiter, send_calls, notify_result>>

VARIABLES
    threads,          \* SpecLimiter: the threads inside
                      \* check_email_rate_limit, with their locals
    passed_at         \* the times at which an attempt passed the limit

raceVars == <<threads, passed_at>>

VARIABLES
    mail              \* SpecSend: the call of send_email_with_retry

VARIABLES
    low_stock_parts,  \* what the last scheduled job got from
                      \* get_low_stock_parts and passed on
    job               \* the last run of scheduled_alert_job: how it went

jobVars == <<low_stock_parts, job>>

VARIABLES
    app,              \* SpecSched: the application (main.py, lifespan)
    sched             \* SpecSched: the scheduler and its one job

schedVars == <<app, sched>>

VARIABLES
    critical,         \* the ids of the parts whose column is_critical is
                      \* true (the other columns are in parts)
    summary           \* what the last GET of the alert summary returned

summaryVars == <<critical, summary>>

\* What the steps of one specification leave alone.
outsideStock  == <<sess, notifyVars, raceVars, mail, jobVars, schedVars,
                   summaryVars>>
outsideConc   == <<notifyVars, raceVars, mail, jobVars, schedVars,
                   summaryVars>>
outsideNotify == <<parts, alerts, nextPartId, nextAlertId,
                   background_tasks, response, sess, raceVars, mail,
                   jobVars, schedVars, summaryVars>>
outsideRace   == <<parts, alerts, nextPartId, nextAlertId,
                   background_tasks, response, sess, send_calls,
                   notify_result, mail, jobVars, schedVars, summaryVars>>
outsideSend   == <<stockVars, sess, notifyVars, raceVars, jobVars,
                   schedVars, summaryVars>>
outsideJob    == <<stockVars, sess, notifyVars, raceVars, mail, schedVars,
                   summaryVars>>
outsideSched  == <<stockVars, sess, notifyVars, raceVars, mail, jobVars,
                   summaryVars>>
outsideSummary == <<sess, notifyVars, raceVars, mail, jobVars, schedVars>>

(***************************************************************************)
(* models/part.py                                                          *)
(***************************************************************************)
is_low_stock(part) ==
    part.quantity_in_stock <= part.minimum_stock_level
        /\ part.minimum_stock_level > 0

\* Part.update_stock without the check for negative stock.
update_stock_unchecked(part, quantity_change) ==
    [raised |-> FALSE,
     part   |-> [part EXCEPT !.quantity_in_stock = @ + quantity_change]]

\* Part.update_stock clamping to zero instead of raising.
update_stock_clamping(part, quantity_change) ==
    [raised |-> FALSE,
     part   |-> [part EXCEPT !.quantity_in_stock =
                    IF @ + quantity_change < 0 THEN 0
                    ELSE @ + quantity_change]]

\* Part.update_stock: the object after the call and whether ValueError was
\* raised (the quantity is reset to 0 on the object before the raise).
update_stock(part, quantity_change) ==
    IF part.quantity_in_stock + quantity_change < 0
    THEN [raised |-> TRUE,
          part   |-> [part EXCEPT !.quantity_in_stock = 0]]
    ELSE [raised |-> FALSE,
          part   |-> [part EXCEPT !.quantity_in_stock = @ + quantity_change]]

(***************************************************************************)
(* models/alert.py                                                         *)
(***************************************************************************)
\* Alert.create_low_stock_alert snapshotting the quantity as the threshold.
create_low_stock_alert_swapped(id, part_id, part) ==
    [id              |-> id,
     part_id         |-> part_id,
     current_stock   |-> part.minimum_stock_level,
     threshold_stock |-> part.quantity_in_stock,
     is_active       |-> TRUE,
     is_resolved     |-> FALSE,
     resolved_at     |-> NoTime]

\* Alert.create_low_stock_alert, with the column defaults of the table;
\* the message text is left out, it is read by no rule.
create_low_stock_alert(id, part_id, part) ==
    [id              |-> id,
     part_id         |-> part_id,
     current_stock   |-> part.quantity_in_stock,
     threshold_stock |-> part.minimum_stock_level,
     is_active       |-> TRUE,
     is_resolved     |-> FALSE,
     resolved_at     |-> NoTime]

\* Alert.resolve that leaves is_active as it is.
resolve_keeps_active(alert, t) ==
    [alert EXCEPT !.is_resolved = TRUE, !.resolved_at = t]

\* Alert.resolve that does not set is_resolved.
resolve_without_flag(alert, t) ==
    [alert EXCEPT !.is_active = FALSE, !.resolved_at = t]

\* Alert.resolve; func.now() is evaluated when the row is written.
resolve(alert, t) ==
    [alert EXCEPT !.is_resolved = TRUE, !.is_active = FALSE, !.resolved_at = t]

(***************************************************************************)
(* services/alert_service.py                                               *)
(***************************************************************************)
\* The query "Alert.part_id == part_id, Alert.is_active.is_(True)".
active_alerts_of(alertRows, part_id) ==
    {a \in alertRows : a.part_id = part_id /\ a.is_active}

AlertIds(alertRows) == {a.id : a \in alertRows}

\* The existing-alert query filtering on is_resolved instead of is_active.
existing_alert_resolved(alertRows, part_id) ==
    {a \in alertRows : a.part_id = part_id /\ a.is_resolved} # {}

\* The existing-alert query without the is_active filter.
existing_alert_any(alertRows, part_id) ==
    {a \in alertRows : a.part_id = part_id} # {}

\* "existing_alert = db.query(Alert).filter(...).first()" as a truth value.
existing_alert(alertRows, part_id) ==
    active_alerts_of(alertRows, part_id) # {}

\* resolve_alerts_for_part: the alerts table after it.
resolve_alerts_for_part(alertRows, part_id, t) ==
    {IF a \in active_alerts_of(alertRows, part_id) THEN resolve(a, t) ELSE a
        : a \in alertRows}

\* The notification task update_stock_level and check_stock_and_create_alert
\* hand to BackgroundTasks: send_low_stock_email_notification(part, admin).
low_stock_task(part_id) == [task |-> "send_low_stock_email_notification",
                            part_id |-> part_id]

\* check_stock_and_create_alert without the look for an active alert.
check_stock_and_create_alert_unguarded(partRows, alertRows, part_id, id) ==
    IF part_id \notin DOMAIN partRows \/ ~is_low_stock(partRows[part_id])
    THEN [alerts |-> alertRows, tasks |-> <<>>, created |-> FALSE]
    ELSE [alerts |-> alertRows \cup
                       {create_low_stock_alert(id, part_id, partRows[part_id])},
          tasks  |-> <<low_stock_task(part_id)>>,
          created |-> TRUE]

\* check_stock_and_create_alert run to its end on committed data.  Gives
\* the alerts table and the tasks it added.  (No integrity error can occur
\* while requests run one at a time: the part row was just read.)
check_stock_and_create_alert(partRows, alertRows, part_id, id) ==
    IF part_id \notin DOMAIN partRows \/ ~is_low_stock(partRows[part_id])
    THEN [alerts |-> alertRows, tasks |-> <<>>, created |-> FALSE]
    ELSE IF existing_alert(alertRows, part_id)
    THEN [alerts |-> alertRows, tasks |-> <<>>, created |-> FALSE]
    ELSE [alerts |-> alertRows \cup
                       {create_low_stock_alert(id, part_id, partRows[part_id])},
          tasks  |-> <<low_stock_task(part_id)>>,
          created |-> TRUE]


(***************************************************************************)
(* routers/parts.py: the handlers, each as the transaction it runs on the  *)
(* committed tables.  A result is [status, parts, alerts, tasks]: the HTTP *)
(* status, the tables after the request, the tasks left in                 *)
(* BackgroundTasks when the response is sent.                              *)
(***************************************************************************)
Result(status, partRows, alertRows, tasks) ==
    [status |-> status, parts |-> partRows, alerts |-> alertRows,
     tasks |-> tasks]

\* update_stock_level, lines 518-566.
update_stock_level_txn(partRows, alertRows, part_id, quantity_change, id, t) ==
    IF part_id \notin DOMAIN partRows
    THEN Result(404, partRows, alertRows, <<>>)
    ELSE
      LET db_part       == partRows[part_id]
          was_low_stock == is_low_stock(db_part)
          upd           == update_stock(db_part, quantity_change)
          newRows       == [partRows EXCEPT ![part_id] = upd.part]
      IN
      IF upd.raised
      THEN \* except Exception: db.rollback(); HTTPException(500)
           Result(500, partRows, alertRows, <<>>)
      ELSE IF quantity_change > 0 /\ ~is_low_stock(upd.part) /\ was_low_stock
      THEN Result(200, newRows,
                  resolve_alerts_for_part(alertRows, part_id, t), <<>>)
      ELSE IF is_low_stock(upd.part)
      THEN IF existing_alert(alertRows, part_id)
           THEN Result(200, newRows, alertRows, <<>>)
           ELSE Result(200, newRows,
                       alertRows \cup
                         {create_low_stock_alert(id, part_id, upd.part)},
                       <<low_stock_task(part_id)>>)
      ELSE Result(200, newRows, alertRows, <<>>)

\* PartUpdate.model_dump(exclude_unset=True): the keys the client set (set)
\* and their values.  Of the columns of a part the model keeps the two the
\* alert rules read and is_active; the bodies explored set is_active alone
\* or the stock columns.
StockKeys  == {"quantity_in_stock", "minimum_stock_level"}
UpdateKeys == StockKeys \cup {"is_active"}
UpdateData ==
    {u \in [set : SUBSET UpdateKeys,
            quantity_in_stock : 0..MaxQty,
            minimum_stock_level : 0..MaxMin,
            is_active : BOOLEAN] :
        /\ ("quantity_in_stock" \notin u.set => u.quantity_in_stock = 0)
        /\ ("minimum_stock_level" \notin u.set => u.minimum_stock_level = 0)
        /\ ("is_active" \notin u.set => u.is_active)
        /\ ("is_active" \in u.set => u.set = {"is_active"})}

\* The PATCH bodies that set quantity_in_stock or minimum_stock_level.
StockUpdates == {u \in UpdateData : u.set \cap StockKeys # {}}

\* "for key, value in update_data.items(): setattr(db_part, key, value)"
apply_update(part, u) ==
    [quantity_in_stock   |-> IF "quantity_in_stock" \in u.set
                             THEN u.quantity_in_stock
                             ELSE part.quantity_in_stock,
     minimum_stock_level |-> IF "minimum_stock_level" \in u.set
                             THEN u.minimum_stock_level
                             ELSE part.minimum_stock_level,
     is_active           |-> IF "is_active" \in u.set
                             THEN u.is_active
                             ELSE part.is_active]

\* update_part, lines 140-179: the part is committed first (line 152), then
\* the alerts are brought up to date in further commits.
update_part_txn(partRows, alertRows, part_id, u, id, t) ==
    IF part_id \notin DOMAIN partRows
    THEN Result(404, partRows, alertRows, <<>>)
    ELSE
      LET quantity_before_update == partRows[part_id].quantity_in_stock
          db_part  == apply_update(partRows[part_id], u)
          newRows  == [partRows EXCEPT ![part_id] = db_part]
          resolved ==
            IF db_part.quantity_in_stock > quantity_before_update
                 /\ ~is_low_stock(db_part)
            THEN resolve_alerts_for_part(alertRows, part_id, t)
            ELSE alertRows
          checked  ==
            IF is_low_stock(db_part)
            THEN check_stock_and_create_alert(newRows, resolved, part_id, id)
            ELSE [alerts |-> resolved, tasks |-> <<>>, created |-> FALSE]
      IN
      IF u.set \cap StockKeys # {}
      THEN Result(200, newRows, checked.alerts, checked.tasks)
      ELSE Result(200, newRows, alertRows, <<>>)

\* delete_part, lines 483-496: the alerts of the part go with it.
delete_part_txn(partRows, alertRows, part_id) ==
    IF part_id \notin DOMAIN partRows
    THEN Result(404, partRows, alertRows, <<>>)
    ELSE Result(204,
                [p \in DOMAIN partRows \ {part_id} |-> partRows[p]],
                {a \in alertRows : a.part_id # part_id},
                <<>>)

\* create_part, lines 40-103: the row as PartCreate gives it (a column
\* left out takes its default); no alert rule runs.
create_part_txn(partRows, alertRows, id, quantity, minimum, active) ==
    Result(201,
           [p \in DOMAIN partRows \cup {id} |->
               IF p = id
               THEN [quantity_in_stock   |-> quantity,
                     minimum_stock_level |-> minimum,
                     is_active           |-> active]
               ELSE partRows[p]],
           alertRows, <<>>)

(***************************************************************************)
(* Spec: requests executed one at a time.  Each handler is one step that   *)
(* replaces the committed tables by the result of its transaction.         *)
(***************************************************************************)
Commit(op, part_id, r) ==
    /\ parts' = r.parts
    /\ alerts' = r.alerts
    /\ nextAlertId' = IF Cardinality(r.alerts) > Cardinality(alerts)
                      THEN nextAlertId + 1 ELSE nextAlertId
    /\ background_tasks' = r.tasks
    /\ response' = [op |-> op, part_id |-> part_id, status |-> r.status]

\* A request that adds an alert row needs an id within the bound.
AlertIdInRange(alertRows) ==
    Cardinality(alertRows) > Cardinality(alerts) => nextAlertId <= MaxAlerts

QuantitiesInRange(partRows) ==
    \A p \in DOMAIN partRows : partRows[p].quantity_in_stock <= MaxQty

update_stock_level(part_id, quantity_change) ==
    LET r == update_stock_level_txn(parts, alerts, part_id, quantity_change,
                                    nextAlertId, now)
    IN /\ AlertIdInRange(r.alerts)
       /\ QuantitiesInRange(r.parts)
       /\ Commit("update_stock_level", part_id, r)
       /\ UNCHANGED <<nextPartId, now, outsideStock>>

update_part(part_id, update_data) ==
    LET r == update_part_txn(parts, alerts, part_id, update_data,
                             nextAlertId, now)
    IN /\ AlertIdInRange(r.alerts)
       /\ Commit("update_part", part_id, r)
       /\ UNCHANGED <<nextPartId, now, outsideStock>>

delete_part(part_id) ==
    /\ Commit("delete_part", part_id,
              delete_part_txn(parts, alerts, part_id))
    /\ UNCHANGED <<nextPartId, now, outsideStock>>

create_part(quantity, minimum, active) ==
    /\ nextPartId \in PartIds
    /\ Commit("create_part", nextPartId,
              create_part_txn(parts, alerts, nextPartId,
                              quantity, minimum, active))
    /\ nextPartId' = nextPartId + 1
    /\ UNCHANGED <<now, outsideStock>>

\* The alert reconciliation called on its own for a part.
reconcile(part_id) ==
    LET c == check_stock_and_create_alert(parts, alerts, part_id, nextAlertId)
    IN /\ AlertIdInRange(c.alerts)
       /\ Commit("check_stock_and_create_alert", part_id,
                 Result(0, parts, c.alerts, c.tasks))
       /\ UNCHANGED <<nextPartId, now, outsideStock>>

\* get_low_stock_parts: the ids of the rows the query selects.
get_low_stock_parts(partRows) ==
    {p \in DOMAIN partRows :
        partRows[p].quantity_in_stock <= partRows[p].minimum_stock_level}

Tick ==
    /\ now < MaxTime
    /\ now' = now + 1
    /\ UNCHANGED <<parts, alerts, nextPartId, nextAlertId,
                   background_tasks, response, outsideStock>>

vars == <<stockVars, sess, notifyVars, raceVars, mail, jobVars, schedVars,
          summaryVars>>

InitStock ==
    /\ parts = <<>>
    /\ alerts = {}
    /\ nextPartId = 1
    /\ nextAlertId = 1
    /\ now = 0
    /\ background_tasks = <<>>
    /\ response = [op |-> "none", part_id |-> 0, status |-> 0]

(***************************************************************************)
(* SpecConc: two requests, each in its own session, interleaved at their   *)
(* database round trips.  The database runs READ COMMITTED: a query sees   *)
(* what is committed when it runs, a commit writes the columns the session *)
(* changed and the rows it added.                                          *)
(***************************************************************************)
Sessions == {"s1", "s2"}

NoPart   == [quantity_in_stock |-> 0, minimum_stock_level |-> 0,
             is_active |-> FALSE]
NoUpdate == [set |-> {}, quantity_in_stock |-> 0, minimum_stock_level |-> 0,
             is_active |-> TRUE]

\* A session before its request arrives.
NewSession ==
    [pc |-> "new", op |-> "none", part_id |-> 0, quantity_change |-> 0,
     update_data |-> NoUpdate, db_part |-> NoPart, was_low_stock |-> FALSE,
     quantity_before_update |-> 0, to_resolve |-> {}, new_alert |-> FALSE,
     expired |-> FALSE, status |-> 0, tasks |-> <<>>,
     part_committed |-> FALSE, inserted |-> FALSE,
     integrity_error |-> FALSE, to_delete |-> {}]

\* The request has been answered and db.close() has run.
Closed(op, part_id, status, tasks) ==
    [NewSession EXCEPT !.pc = "closed", !.op = op, !.part_id = part_id,
                       !.status = status, !.tasks = tasks]

\* The tasks of a request that run once it is answered, without the tasks
\* added before the handler raised.
tasks_after_always(status, tasks) == tasks

\* The tasks of a request that run once it is answered: those in
\* background_tasks when the handler returns.  When the handler raises
\* (HTTPException or not) the error response takes the place of the
\* handler's and carries no task.
tasks_after(status, tasks) == IF status >= 400 THEN <<>> ELSE tasks

\* The request has ended with this status: what becomes of the session.
Answered(r, status) ==
    [Closed(r.op, r.part_id, status, tasks_after(status, r.tasks))
        EXCEPT !.inserted = r.inserted, !.part_committed = r.part_committed,
               !.integrity_error = r.integrity_error]

\* The INSERT of an alert row at commit, without the foreign key.
insert_alert_unconstrained(partRows, alertRows, alert) ==
    [raised |-> FALSE, alerts |-> alertRows \cup {alert}]

\* The INSERT of an alert row at commit.  alerts.part_id is a foreign key
\* to parts.id, the one constraint of the table a new alert can violate:
\* the insert raises IntegrityError when the part row is gone.
insert_alert(partRows, alertRows, alert) ==
    IF alert.part_id \in DOMAIN partRows
    THEN [raised |-> FALSE, alerts |-> alertRows \cup {alert}]
    ELSE [raised |-> TRUE,  alerts |-> alertRows]

InitSess == sess = [s \in Sessions |-> NewSession]

(***************************************************************************)
(* services/notification_service.py: the rate limiter and the dispatcher.  *)
(* Time is counted in ticks of half an hour.                               *)
(***************************************************************************)
HourTicks  == 2     \* timedelta(hours=1), in ticks
MaxPerHour == 5     \* max_per_hour passed by send_low_stock_email_notification
MaxNotifyTime == 5  \* last tick of the clock in SpecNotify
NotifyParts == {1, 2}   \* ids of the parts notifications are about

\* rate_key = f"low_stock_{part.id}"
rate_key(part_id) == <<"low_stock", part_id>>

\* dict[key] = value
Put(dict, key, value) ==
    [k \in DOMAIN dict \cup {key} |-> IF k = key THEN value ELSE dict[k]]

\* dict.get(key, default)
Get(dict, key, default) ==
    IF key \in DOMAIN dict THEN dict[key] ELSE default

\* check_email_rate_limit: the limiter after the call and the value the
\* call returns.  Only the refusal has a return statement (False); the
\* function ends after updating the counters, which returns None.
check_email_rate_limit(limiter, email_key, max_per_hour, t) ==
    LET hour_ago == t - HourTicks
        reset ==
          IF email_key \notin DOMAIN limiter.last_sent
               \/ limiter.last_sent[email_key] < hour_ago
          THEN [limiter EXCEPT
                  !.send_count = Put(limiter.send_count, email_key, 0)]
          ELSE limiter
        current_count == Get(reset.send_count, email_key, 0)
    IN
    IF current_count >= max_per_hour
    THEN [limiter |-> reset, returns |-> "False"]
    ELSE [limiter |-> [last_sent  |-> Put(reset.last_sent, email_key, t),
                       send_count |-> Put(reset.send_count, email_key,
                                          current_count + 1)],
          returns |-> "None"]

\* Python truth value of what check_email_rate_limit returns.
Truthy(value) == value = "True"

\* send_low_stock_email_notification, lines 120-154: it returns without
\* sending when the check is not truthy, else builds the mail and calls
\* send_email_with_retry.
run_notification_task(part_id) ==
    LET c == check_email_rate_limit(email_limiter, rate_key(part_id),
                                    MaxPerHour, now)
    IN
    /\ email_limiter' = c.limiter
    /\ IF ~Truthy(c.returns)
       THEN /\ send_calls' = send_calls
            /\ notify_result' = [part_id |-> part_id,
                                 outcome |-> "rate_limit_hit"]
       ELSE /\ send_calls' = [send_calls EXCEPT ![rate_key(part_id)] = @ + 1]
            /\ notify_result' = [part_id |-> part_id,
                                 outcome |-> "send_email_with_retry"]

send_low_stock_email_notification(part_id) ==
    /\ run_notification_task(part_id)
    /\ UNCHANGED <<now, outsideNotify>>

NotifyTick ==
    /\ now < MaxNotifyTime
    /\ now' = now + 1
    /\ UNCHANGED <<notifyVars, outsideNotify>>

InitNotify ==
    /\ email_limiter = [last_sent |-> <<>>, send_count |-> <<>>]
    /\ send_calls = [k \in {rate_key(p) : p \in NotifyParts} |-> 0]
    /\ notify_result = [part_id |-> 0, outcome |-> "none"]

NextNotify ==
    \/ \E p \in NotifyParts : send_low_stock_email_notification(p)
    \/ NotifyTick

(***************************************************************************)
(* SpecLimiter: check_email_rate_limit run by several threads.  The       *)
(* notification tasks are plain functions, which BackgroundTasks runs on   *)
(* the worker threads of the thread pool; email_limiter is a module global *)
(* they share, and the function takes no lock.  A thread can be preempted  *)
(* between the statements of the function.                                 *)
(***************************************************************************)
Threads == {"t1", "t2"}
RaceKey == rate_key(1)      \* the threads notify about the same part

IdleThread == [pc |-> "idle", now |-> 0, current_count |-> 0,
               calls |-> 0, returns |-> "none"]

SetThread(th, rec) == threads' = [threads EXCEPT ![th] = rec]

\* Line 44-45: the call starts and reads the clock.
lim_call(th) ==
    /\ threads[th].pc = "idle"
    /\ threads[th].calls < MaxThreadCalls
    /\ SetThread(th, [threads[th] EXCEPT !.pc = "reset", !.now = now,
                                         !.calls = @ + 1,
                                         !.returns = "none"])
    /\ UNCHANGED <<email_limiter, passed_at, now, outsideRace>>

\* Lines 48-49: the counter of the key is reset when its hour is over.
lim_reset(th) ==
    LET hour_ago == threads[th].now - HourTicks IN
    /\ threads[th].pc = "reset"
    /\ email_limiter' =
          IF RaceKey \notin DOMAIN email_limiter.last_sent
               \/ email_limiter.last_sent[RaceKey] < hour_ago
          THEN [email_limiter EXCEPT
                  !.send_count = Put(email_limiter.send_count, RaceKey, 0)]
          ELSE email_limiter
    /\ SetThread(th, [threads[th] EXCEPT !.pc = "read"])
    /\ UNCHANGED <<passed_at, now, outsideRace>>

\* Lines 52-55: the counter is read into current_count and compared.
lim_read(th) ==
    LET current_count == Get(email_limiter.send_count, RaceKey, 0) IN
    /\ threads[th].pc = "read"
    /\ IF current_count >= MaxPerHour
       THEN SetThread(th, [threads[th] EXCEPT !.pc = "idle",
                                              !.returns = "False"])
       ELSE SetThread(th, [threads[th] EXCEPT !.pc = "update",
                              !.current_count = current_count])
    /\ UNCHANGED <<email_limiter, passed_at, now, outsideRace>>

\* Lines 58-59: the attempt has passed; the counters are written from the
\* locals of the thread.
lim_update(th) ==
    /\ threads[th].pc = "update"
    /\ email_limiter' =
          [last_sent  |-> Put(email_limiter.last_sent, RaceKey,
                              threads[th].now),
           send_count |-> Put(email_limiter.send_count, RaceKey,
                              threads[th].current_count + 1)]
    /\ passed_at' = Append(passed_at, threads[th].now)
    /\ SetThread(th, [threads[th] EXCEPT !.pc = "idle", !.current_count = 0,
                                         !.returns = "None"])
    /\ UNCHANGED <<now, outsideRace>>

LimTick ==
    /\ now < MaxRaceTime
    /\ now' = now + 1
    /\ UNCHANGED <<email_limiter, raceVars, outsideRace>>

InitRace ==
    /\ threads = [th \in Threads |-> IdleThread]
    /\ passed_at = <<>>

NextLimiter ==
    \/ \E th \in Threads : lim_call(th)
    \/ \E th \in Threads : lim_reset(th)
    \/ \E th \in Threads : lim_read(th)
    \/ \E th \in Threads : lim_update(th)
    \/ LimTick

(***************************************************************************)
(* SpecSend: send_email_with_retry, one step per call of _send_email and   *)
(* per time.sleep.  What the SMTP server does at an attempt is chosen by   *)
(* the environment.                                                        *)
(***************************************************************************)
max_retries == 3    \* the default of send_email_with_retry

\* What smtplib can do when line 102-105 run.
Transports == {"sent", "SMTPAuthenticationError", "SMTPServerDisconnected",
               "SMTPException", "TimeoutError"}

\* _send_email: how the call ends.  The address and the settings are
\* checked at every call, before the server is contacted; whatever the
\* transport raises is logged and raised again (lines 109-112).
send_email(to_email_ok, settings_ok, transport) ==
    IF ~to_email_ok THEN "ValueError"
    ELSE IF ~settings_ok THEN "ValueError"
    ELSE transport

\* The delay with a constant base.
backoff_constant(attempt) == 1

\* time.sleep(2 ** attempt)
backoff(attempt) == 2 ^ attempt

NoMail == [pc |-> "idle", to_email_ok |-> TRUE, settings_ok |-> TRUE,
           attempt |-> 0, outcomes |-> <<>>, sleeps |-> <<>>, calls |-> 0]

\* Line 154 / 156-158: the call, with the loop at its first round.
send_call(to_email_ok, settings_ok) ==
    /\ mail.pc \in {"idle", "returned", "raised"}
    /\ mail.calls < MaxSendCalls
    /\ mail' = [NoMail EXCEPT !.pc = "attempt",
                              !.to_email_ok = to_email_ok,
                              !.settings_ok = settings_ok,
                              !.calls = mail.calls + 1]
    /\ UNCHANGED <<now, outsideSend>>

\* Lines 159-176 up to the sleep: one round of the loop.
send_attempt(transport) ==
    LET outcome  == send_email(mail.to_email_ok, mail.settings_ok, transport)
        outcomes == Append(mail.outcomes, outcome)
    IN
    /\ mail.pc = "attempt"
    /\ mail' =
          IF outcome = "sent"
          THEN [mail EXCEPT !.pc = "returned", !.outcomes = outcomes]
          ELSE IF outcome = "SMTPAuthenticationError"
          THEN \* break: the loop is left and the function ends
               [mail EXCEPT !.pc = "returned", !.outcomes = outcomes]
          ELSE IF mail.attempt = max_retries - 1
          THEN [mail EXCEPT !.pc = "raised", !.outcomes = outcomes]
          ELSE [mail EXCEPT !.pc = "sleep", !.outcomes = outcomes]
    /\ UNCHANGED <<now, outsideSend>>

\* Lines 170 and 176: the wait, then the next round.
send_sleep ==
    /\ mail.pc = "sleep"
    /\ mail' = [mail EXCEPT !.pc = "attempt",
                            !.sleeps = Append(@, backoff(mail.attempt)),
                            !.attempt = @ + 1]
    /\ UNCHANGED <<now, outsideSend>>

\* send_low_stock_email_notification ends with the call (line 154) and has
\* no handler around it: it returns when the call returns and raises what
\* the call raises.
dispatcher_outcome(pc) ==
    IF pc = "raised" THEN "raised"
    ELSE IF pc = "returned" THEN "returned"
    ELSE "running"

InitMail == mail = NoMail

NextSend ==
    \/ \E a, c \in BOOLEAN : send_call(a, c)
    \/ \E t \in Transports : send_attempt(t)
    \/ send_sleep

(***************************************************************************)
(* The scheduled job (services/scheduler.py) and the summary it mails.     *)
(***************************************************************************)
\* send_periodic_alert_summary: nothing is sent for an empty list;
\* otherwise _send_email is called once, with no retry and no rate limit,
\* and what it raises goes to the caller.  The result is the number of
\* calls of _send_email and what the function raised ("" when it returned).
send_periodic_alert_summary(alertParts, admin_ok, settings_ok, transport) ==
    IF alertParts = {}
    THEN [send_attempts |-> 0, raised |-> ""]
    ELSE LET outcome == send_email(admin_ok, settings_ok, transport)
         IN [send_attempts |-> 1,
             raised |-> IF outcome = "sent" THEN "" ELSE outcome]

NoJob == [ran |-> FALSE, query_ok |-> TRUE, send_attempts |-> 0,
          logged_error |-> FALSE, ended |-> "none"]

\* The job mailing the summary whether or not a part is low.
scheduled_alert_job_always_mails(partRows, query_ok, admin_ok, settings_ok, transport) ==
    IF ~query_ok
    THEN [low_stock_parts |-> {},
          job |-> [NoJob EXCEPT !.ran = TRUE, !.query_ok = FALSE,
                                !.logged_error = TRUE,
                                !.ended = "returned"]]
    ELSE LET outcome == send_email(admin_ok, settings_ok, transport)
         IN [low_stock_parts |-> get_low_stock_parts(partRows),
             job |-> [NoJob EXCEPT !.ran = TRUE, !.send_attempts = 1,
                                   !.logged_error = (outcome # "sent"),
                                   !.ended = "returned"]]

\* services/scheduler.py, scheduled_alert_job, on the rows committed when
\* its query runs: the low parts are fetched and, when there are any,
\* passed to send_periodic_alert_summary; whatever the query or the send
\* raises is logged (lines 43-44) and the function returns.
scheduled_alert_job_run(partRows, query_ok, admin_ok, settings_ok, transport) ==
    IF ~query_ok
    THEN [low_stock_parts |-> {},
          job |-> [NoJob EXCEPT !.ran = TRUE, !.query_ok = FALSE,
                                !.logged_error = TRUE,
                                !.ended = "returned"]]
    ELSE LET low == get_low_stock_parts(partRows)
             sent == send_periodic_alert_summary(low, admin_ok,
                                                 settings_ok, transport)
         IN IF low # {}
            THEN [low_stock_parts |-> low,
                  job |-> [NoJob EXCEPT !.ran = TRUE,
                                        !.send_attempts = sent.send_attempts,
                                        !.logged_error = (sent.raised # ""),
                                        !.ended = "returned"]]
            ELSE [low_stock_parts |-> low,
                  job |-> [NoJob EXCEPT !.ran = TRUE, !.ended = "returned"]]

scheduled_alert_job ==
    \E query_ok, admin_ok, settings_ok \in BOOLEAN,
       transport \in Transports :
        LET r == scheduled_alert_job_run(parts, query_ok, admin_ok,
                                         settings_ok, transport)
        IN /\ low_stock_parts' = r.low_stock_parts
           /\ job' = r.job
           /\ UNCHANGED outsideJob

InitJob ==
    /\ low_stock_parts = {}
    /\ job = NoJob

(***************************************************************************)
(* SpecSched: the scheduler of services/scheduler.py and the lifespan of   *)
(* main.py.  The scheduler is an APScheduler BackgroundScheduler with one  *)
(* interval job; its thread wakes at the fire times of the job (or later,  *)
(* when the process was held up) and hands the job to a worker thread.     *)
(***************************************************************************)
MaxRuns   == 3      \* runs of the job started
MaxMissed == 2      \* fire times that can pass before the scheduler wakes

max_instances == 1  \* job_defaults, line 58
coalesce == TRUE    \* job_defaults, line 57

\* services.scheduler before start_scheduler: scheduler_instance = None.
NoSched == [instance |-> "None", state |-> "stopped", atexit |-> FALSE,
            executing |-> 0, backlog |-> 0, due |-> 0, runs |-> 0,
            last_run |-> "none", skipped |-> FALSE, coalesced |-> FALSE,
            missed |-> FALSE]

\* main.py at import: line 13 binds main's own name scheduler_instance to
\* the value services.scheduler.scheduler_instance has at that moment.
NoApp == [state |-> "down", scheduler_instance |-> NoSched.instance]

\* start_scheduler: the module global is bound to a new scheduler, the job
\* is added, the scheduler is started and shutdown_scheduler is registered
\* with atexit.
start_scheduler(s) ==
    [s EXCEPT !.instance = "scheduler", !.state = "running",
              !.atexit = TRUE]

\* BackgroundScheduler.shutdown(wait=True): the scheduler is stopped at
\* once, no fire time is processed any more, and the call returns when
\* the run in progress has ended.
shutdown(s) == [s EXCEPT !.state = "stopped", !.due = 0]

\* The statement of main.py lines 72-74 and of shutdown_scheduler (lines
\* 86-89), on the binding each of them reads.
shutdown_if_running(binding, s) ==
    IF binding # "None" /\ s.state = "running" THEN shutdown(s) ELSE s

\* The scheduler handing every due fire time to a worker of its own.
process_due_unlimited(s, late) ==
    IF late
    THEN [s EXCEPT !.due = 0, !.missed = TRUE]
    ELSE [s EXCEPT !.due = 0, !.executing = @ + 1, !.runs = @ + 1,
                   !.coalesced = @ \/ s.due > 1]

\* The scheduler thread processing the job when fire times are due: with
\* coalesce they count as one; the job is submitted unless max_instances
\* runs of it are executing (the firing is then dropped with a warning);
\* a run time older than misfire_grace_time is dropped by the worker.  A
\* job not coalesced runs once per fire time, one run after the other in
\* the same worker.
process_due(s, late) ==
    LET run_times == IF coalesce THEN 1 ELSE s.due
    IN IF s.executing >= max_instances
       THEN [s EXCEPT !.due = 0, !.skipped = TRUE]
       ELSE IF late
       THEN [s EXCEPT !.due = 0, !.missed = TRUE]
       ELSE [s EXCEPT !.due = 0, !.executing = @ + 1, !.runs = @ + 1,
                      !.backlog = run_times - 1,
                      !.coalesced = @ \/ s.due > 1]

\* A run that raised taking the scheduler down with it.
after_run_uncontained(s, outcome) ==
    IF outcome = "raised"
    THEN [s EXCEPT !.executing = 0, !.backlog = 0, !.last_run = outcome,
                   !.state = "stopped"]
    ELSE [s EXCEPT !.executing = @ - 1, !.last_run = outcome]

\* The end of a run.  scheduled_alert_job logs what its body raises (lines
\* 43-44); what escapes it (the session could not be opened, line 31) is
\* caught and logged by the worker.  Neither touches the scheduler or the
\* job's next fire time.
after_run(s, outcome) ==
    IF s.backlog > 0
    THEN [s EXCEPT !.backlog = @ - 1, !.runs = @ + 1, !.last_run = outcome]
    ELSE [s EXCEPT !.executing = @ - 1, !.last_run = outcome]

\* main.py, lifespan up to the yield (line 64 calls start_scheduler).
lifespan_startup ==
    /\ app.state = "down"
    /\ app' = [app EXCEPT !.state = "up"]
    /\ sched' = start_scheduler(sched)
    /\ UNCHANGED outsideSched

\* A fire time of the interval trigger passes.
interval_elapses ==
    /\ sched.state = "running"
    /\ sched.due < MaxMissed
    /\ sched' = [sched EXCEPT !.due = @ + 1]
    /\ UNCHANGED <<app, outsideSched>>

\* The scheduler thread wakes and processes the job.
process_jobs(late) ==
    /\ sched.state = "running"
    /\ sched.due > 0
    /\ sched.runs < MaxRuns
    /\ sched' = process_due(sched, late)
    /\ UNCHANGED <<app, outsideSched>>

\* The run in progress ends, normally or by raising.
run_ends(outcome) ==
    /\ sched.executing > 0
    /\ sched.backlog > 0 => sched.runs < MaxRuns
    /\ sched' = after_run(sched, outcome)
    /\ UNCHANGED <<app, outsideSched>>

\* main.py, lifespan after the yield, lines 69-74: the call of shutdown.
lifespan_shutdown ==
    /\ app.state = "up"
    /\ app' = [app EXCEPT !.state = "stopping"]
    /\ sched' = shutdown_if_running(app.scheduler_instance, sched)
    /\ UNCHANGED outsideSched

\* main.py, lines 75-80: the lifespan ends; a shutdown that was called has
\* returned, which it does when no run is in progress.
lifespan_ends ==
    /\ app.state = "stopping"
    /\ sched.state = "stopped" => sched.executing = 0
    /\ app' = [app EXCEPT !.state = "stopped"]
    /\ UNCHANGED <<sched, outsideSched>>

\* shutdown_scheduler run by atexit, when the interpreter gets to its exit
\* functions after the application has stopped.
shutdown_scheduler ==
    /\ app.state = "stopped"
    /\ sched.atexit
    /\ sched' = [shutdown_if_running(sched.instance, sched)
                    EXCEPT !.atexit = FALSE]
    /\ UNCHANGED <<app, outsideSched>>

InitSched ==
    /\ app = NoApp
    /\ sched = NoSched

NextSched ==
    \/ lifespan_startup
    \/ interval_elapses
    \/ \E late \in BOOLEAN : process_jobs(late)
    \/ \E outcome \in {"returned", "raised"} : run_ends(outcome)
    \/ lifespan_shutdown
    \/ lifespan_ends
    \/ shutdown_scheduler


(***************************************************************************)
(* SpecSummary: the requests and GET /alerts/summary.                      *)
(***************************************************************************)
NoSummary == [total_alerts |-> 0, active_alerts |-> 0,
              resolved_alerts |-> 0, critical_parts_low |-> 0,
              out_of_stock_parts |-> 0]

\* services/alert_service.py, get_alert_summary: five COUNT queries.
get_alert_summary(partRows, alertRows, criticalIds) ==
    [total_alerts |-> Cardinality(alertRows),
     active_alerts |-> Cardinality({a \in alertRows : a.is_active}),
     resolved_alerts |-> Cardinality({a \in alertRows : a.is_resolved}),
     critical_parts_low |->
         Cardinality({p \in DOMAIN partRows :
             /\ p \in criticalIds
             /\ partRows[p].quantity_in_stock
                    <= partRows[p].minimum_stock_level
             /\ partRows[p].quantity_in_stock > 0
             /\ partRows[p].is_active}),
     out_of_stock_parts |->
         Cardinality({p \in DOMAIN partRows :
             /\ partRows[p].quantity_in_stock = 0
             /\ partRows[p].is_active})]

\* routers/alerts.py, GET /alerts/summary.
get_alert_summary_request ==
    /\ summary' = get_alert_summary(parts, alerts, critical)
    /\ UNCHANGED <<critical, stockVars, outsideSummary>>

\* The column is_critical of a part is set.  No schema of routers/parts.py
\* carries the column and a new row gets the default, false; it is written
\* outside the part routes (Part.update_stock writes it when it is called
\* with force_critical).
set_is_critical(part_id) ==
    /\ part_id \in DOMAIN parts
    /\ part_id \notin critical
    /\ critical' = critical \cup {part_id}
    /\ UNCHANGED <<summary, stockVars, outsideSummary>>

NextSummary ==
    \/ \E p \in PartIds, d \in Deltas : update_stock_level(p, d)
    \/ \E p \in PartIds, u \in UpdateData : update_part(p, u)
    \/ \E p \in PartIds : delete_part(p)
    \/ \E q \in 0..MaxQty, m \in 0..MaxMin, a \in BOOLEAN : create_part(q, m, a)
    \/ \E p \in PartIds : set_is_critical(p)
    \/ get_alert_summary_request

InitSummary ==
    /\ critical = {}
    /\ summary = NoSummary

Init ==
    /\ InitStock /\ InitSess /\ InitNotify /\ InitRace /\ InitMail
    /\ InitJob /\ InitSched /\ InitSummary

SpecLimiter == Init /\ [][NextLimiter]_vars

SpecSend == Init /\ [][NextSend]_vars

SpecNotify == Init /\ [][NextNotify]_vars

SpecSched == Init /\ [][NextSched]_vars

SpecSummary == Init /\ [][NextSummary]_vars

Next ==
    \/ \E p \in PartIds, d \in Deltas : update_stock_level(p, d)
    \/ \E p \in PartIds, u \in UpdateData : update_part(p, u)
    \/ \E p \in PartIds : delete_part(p)
    \/ \E q \in 0..MaxQty, m \in 0..MaxMin, a \in BOOLEAN : create_part(q, m, a)
    \/ \E p \in PartIds : reconcile(p)
    \/ Tick

Spec == Init /\ [][Next]_vars

\* SpecJob: the scheduled job running between the requests (the scheduler
\* thread opens its own session and reads what is committed).
NextJob ==
    \/ \E p \in PartIds, d \in Deltas : update_stock_level(p, d)
    \/ \E p \in PartIds, u \in UpdateData : update_part(p, u)
    \/ \E p \in PartIds : delete_part(p)
    \/ \E q \in 0..MaxQty, m \in 0..MaxMin, a \in BOOLEAN : create_part(q, m, a)
    \/ scheduled_alert_job

SpecJob == Init /\ [][NextJob]_vars

(***************************************************************************)
(* The steps of a request in SpecConc.                                     *)
(***************************************************************************)
SetSess(s, rec) == sess' = [sess EXCEPT ![s] = rec]

\* The UPDATE a flush emits for a part: only the columns whose value the
\* session changed are written over the committed row.
flush_part(committed, loaded, changed) ==
    [k \in DOMAIN committed |->
        IF changed[k] # loaded[k] THEN changed[k] ELSE committed[k]]

\* The UPDATEs a flush emits for the alerts the session resolved.
flush_resolved(alertRows, ids, t) ==
    {IF a.id \in ids THEN resolve(a, t) ELSE a : a \in alertRows}

\* update_stock_level line 518: the part is loaded into the session.
usl_load(s, part_id, quantity_change) ==
    /\ sess[s].pc = "new"
    /\ IF part_id \notin DOMAIN parts
       THEN SetSess(s, Closed("update_stock_level", part_id, 404, <<>>))
       ELSE /\ parts[part_id].quantity_in_stock + quantity_change
                  <= MaxConcQty
            /\ SetSess(s, [sess[s] EXCEPT
                    !.pc = "usl_check", !.op = "update_stock_level",
                    !.part_id = part_id,
                    !.quantity_change = quantity_change,
                    !.db_part = parts[part_id]])
    /\ UNCHANGED <<stockVars, outsideConc>>

\* Lines 525-552: the object is changed in memory and the alert rule
\* queries the alerts committed at this moment.
usl_check(s) ==
    LET r   == sess[s]
        upd == update_stock(r.db_part, r.quantity_change)
        low == is_low_stock(upd.part)
    IN
    /\ r.pc = "usl_check"
    /\ IF upd.raised
       THEN SetSess(s, Answered(r, 500))
       ELSE IF r.quantity_change > 0 /\ ~low /\ is_low_stock(r.db_part)
       THEN SetSess(s, [r EXCEPT
               !.pc = "usl_commit",
               !.was_low_stock = TRUE,
               !.to_resolve = AlertIds(active_alerts_of(alerts, r.part_id))])
       ELSE SetSess(s, [r EXCEPT
               !.pc = "usl_commit",
               !.was_low_stock = is_low_stock(r.db_part),
               !.new_alert = low /\ ~existing_alert(alerts, r.part_id),
               !.tasks = IF low /\ ~existing_alert(alerts, r.part_id)
                         THEN <<low_stock_task(r.part_id)>> ELSE <<>>])
    /\ UNCHANGED <<stockVars, outsideConc>>

\* Line 555 (line 126 in the resolve branch): the commit.  It fails, and
\* the handler answers 500 after a rollback, when a row it writes is gone:
\* the part (the UPDATE matches no row, or the new alert violates the
\* foreign key) or an alert it resolved.
usl_commit(s) ==
    LET r   == sess[s]
        upd == update_stock(r.db_part, r.quantity_change).part
        ok  == /\ r.part_id \in DOMAIN parts
               /\ r.to_resolve \subseteq AlertIds(alerts)
    IN
    /\ r.pc = "usl_commit"
    /\ r.new_alert => nextAlertId <= MaxAlerts
    /\ IF ok
       THEN /\ parts' = [parts EXCEPT
                           ![r.part_id] = flush_part(@, r.db_part, upd)]
            /\ alerts' =
                  IF r.new_alert
                  THEN insert_alert(parts,
                         flush_resolved(alerts, r.to_resolve, now),
                         create_low_stock_alert(nextAlertId, r.part_id,
                                                upd)).alerts
                  ELSE flush_resolved(alerts, r.to_resolve, now)
            /\ nextAlertId' = IF r.new_alert THEN nextAlertId + 1
                              ELSE nextAlertId
            /\ SetSess(s, [r EXCEPT !.pc = "usl_refresh",
                                    !.part_committed = TRUE,
                                    !.inserted = r.new_alert])
       ELSE /\ UNCHANGED <<parts, alerts>>
            /\ nextAlertId' = IF r.new_alert /\ upd = r.db_part
                              THEN nextAlertId + 1 ELSE nextAlertId
            /\ SetSess(s, Answered(r, 500))
    /\ UNCHANGED <<nextPartId, now, background_tasks, response,
                   outsideConc>>

\* Line 556: db.refresh(db_part), inside the try; it raises when the row
\* is gone.
usl_refresh(s) ==
    LET r == sess[s] IN
    /\ r.pc = "usl_refresh"
    /\ SetSess(s, Answered(r, IF r.part_id \in DOMAIN parts THEN 200
                              ELSE 500))
    /\ UNCHANGED <<stockVars, outsideConc>>

\* update_part line 140: the part is loaded into the session.
up_load(s, part_id, update_data) ==
    /\ sess[s].pc = "new"
    /\ IF part_id \notin DOMAIN parts
       THEN SetSess(s, Closed("update_part", part_id, 404, <<>>))
       ELSE SetSess(s, [sess[s] EXCEPT
               !.pc = "up_commit", !.op = "update_part",
               !.part_id = part_id, !.update_data = update_data,
               !.db_part = parts[part_id],
               !.quantity_before_update = parts[part_id].quantity_in_stock])
    /\ UNCHANGED <<stockVars, outsideConc>>

\* Lines 148-153: setattr, commit, refresh.  With the part row gone the
\* UPDATE or the refresh raises and the request ends with 500.
up_commit(s) ==
    LET r   == sess[s]
        row == flush_part(parts[r.part_id], r.db_part,
                          apply_update(r.db_part, r.update_data))
    IN
    /\ r.pc = "up_commit"
    /\ IF r.part_id \notin DOMAIN parts
       THEN /\ parts' = parts
            /\ SetSess(s, Answered(r, 500))
       ELSE /\ parts' = [parts EXCEPT ![r.part_id] = row]
            /\ IF r.update_data.set \cap StockKeys # {}
               THEN SetSess(s, [r EXCEPT !.pc = "up_check", !.db_part = row,
                                       !.update_data = NoUpdate,
                                       !.part_committed = TRUE])
               ELSE SetSess(s, Answered([r EXCEPT !.part_committed = TRUE],
                                        200))
    /\ UNCHANGED <<alerts, nextPartId, nextAlertId, now,
                   background_tasks, response, outsideConc>>

\* Lines 161-164: resolve_alerts_for_part queries the active alerts.
up_check(s) ==
    LET r == sess[s] IN
    /\ r.pc = "up_check"
    /\ IF r.db_part.quantity_in_stock > r.quantity_before_update
            /\ ~is_low_stock(r.db_part)
       THEN LET ids == AlertIds(active_alerts_of(alerts, r.part_id)) IN
            SetSess(s, [r EXCEPT
               !.pc = IF ids = {} THEN "up_low" ELSE "up_resolve",
               !.to_resolve = ids])
       ELSE SetSess(s, [r EXCEPT !.pc = "up_low"])
    /\ UNCHANGED <<stockVars, outsideConc>>

\* alert_service line 126: the commit of the resolved alerts; it expires
\* the objects of the session.
up_resolve(s) ==
    LET r == sess[s] IN
    /\ r.pc = "up_resolve"
    /\ IF r.to_resolve \subseteq AlertIds(alerts)
       THEN /\ alerts' = flush_resolved(alerts, r.to_resolve, now)
            /\ SetSess(s, [r EXCEPT !.pc = "up_low", !.to_resolve = {},
                                    !.expired = TRUE])
       ELSE \* an alert it resolved is gone: the UPDATE matches no row
            /\ alerts' = alerts
            /\ SetSess(s, Answered(r, 500))
    /\ UNCHANGED <<parts, nextPartId, nextAlertId, now,
                   background_tasks, response, outsideConc>>

\* Line 168 and alert_service lines 37-46: is the part low (an expired
\* object is read again from the database) and has it an active alert.
up_low(s) ==
    LET r    == sess[s]
        gone == r.part_id \notin DOMAIN parts
        part == IF r.expired /\ ~gone THEN parts[r.part_id] ELSE r.db_part
    IN
    /\ r.pc = "up_low"
    /\ IF r.expired /\ gone
       THEN \* line 168 reads an expired object whose row is gone
            SetSess(s, Answered(r, 500))
       ELSE IF ~is_low_stock(part)
       THEN SetSess(s, Answered(r, 200))
       ELSE IF gone
       THEN \* alert_service line 37-40: the query finds no part
            SetSess(s, Answered(r, 200))
       ELSE IF existing_alert(alerts, r.part_id)
       THEN SetSess(s, Answered(r, 200))
       ELSE SetSess(s, [r EXCEPT !.pc = "up_insert", !.db_part = part,
                               !.expired = FALSE, !.new_alert = TRUE])
    /\ UNCHANGED <<stockVars, outsideConc>>

\* alert_service lines 53-68: the alert is added and committed; on
\* IntegrityError the session is rolled back.  Either way the objects of
\* the session are expired and the notification task is added.
up_insert(s) ==
    LET r   == sess[s]
        ins == insert_alert(parts, alerts,
                 create_low_stock_alert(nextAlertId, r.part_id, r.db_part))
    IN
    /\ r.pc = "up_insert"
    /\ nextAlertId <= MaxAlerts
    /\ alerts' = ins.alerts
    /\ nextAlertId' = nextAlertId + 1
    /\ SetSess(s, [r EXCEPT !.pc = "up_return",
                            !.inserted = ~ins.raised,
                            !.integrity_error = ins.raised,
                            !.expired = TRUE,
                            !.tasks = <<low_stock_task(r.part_id)>>])
    /\ UNCHANGED <<parts, nextPartId, now, background_tasks, response,
                   outsideConc>>

\* update_part line 179: "return db_part".  The response is built from the
\* attributes of the object; they are expired, so the row is read again,
\* which raises when the row is gone.
up_return(s) ==
    LET r == sess[s] IN
    /\ r.pc = "up_return"
    /\ SetSess(s, Answered(r, IF r.part_id \in DOMAIN parts THEN 200
                              ELSE 500))
    /\ UNCHANGED <<stockVars, outsideConc>>

\* delete_part lines 483-489: the part and its alerts are loaded.
del_load(s, part_id) ==
    /\ sess[s].pc = "new"
    /\ IF part_id \notin DOMAIN parts
       THEN SetSess(s, Closed("delete_part", part_id, 404, <<>>))
       ELSE SetSess(s, [sess[s] EXCEPT
               !.pc = "del_commit", !.op = "delete_part",
               !.part_id = part_id,
               !.to_delete = AlertIds({a \in alerts : a.part_id = part_id})])
    /\ UNCHANGED <<stockVars, outsideConc>>

\* delete_part lines 490-504: the loaded alerts and the part are deleted
\* and committed.  An alert of the part added since the load keeps the
\* part from being deleted (foreign key): rollback and 500.
del_commit(s) ==
    LET r    == sess[s]
        left == {a \in alerts : a.part_id = r.part_id
                                   /\ a.id \notin r.to_delete}
    IN
    /\ r.pc = "del_commit"
    /\ IF r.part_id \in DOMAIN parts /\ left # {}
       THEN /\ UNCHANGED <<parts, alerts>>
            /\ SetSess(s, Answered(r, 500))
       ELSE /\ parts' = [p \in DOMAIN parts \ {r.part_id} |-> parts[p]]
            /\ alerts' = {a \in alerts : a.id \notin r.to_delete}
            /\ SetSess(s, Answered(r, 204))
    /\ UNCHANGED <<nextPartId, nextAlertId, now, background_tasks, response,
                   outsideConc>>

\* A notification task of an answered request runs.
run_background_task(s) ==
    /\ sess[s].pc = "closed"
    /\ sess[s].tasks # <<>>
    /\ run_notification_task(Head(sess[s].tasks).part_id)
    /\ SetSess(s, [sess[s] EXCEPT !.tasks = Tail(@)])
    /\ UNCHANGED <<stockVars, raceVars, mail, jobVars, schedVars,
                   summaryVars>>

\* The inputs of SpecConc.
ConcDeltas  == (0 - MaxConcDelta)..MaxConcDelta
ConcUpdates == {u \in StockUpdates :
                   /\ "is_active" \notin u.set
                   /\ u.quantity_in_stock <= MaxConcQty
                   /\ u.minimum_stock_level <= MaxConcMin}

\* The part is created before the two requests arrive.
conc_create_part(quantity, minimum, active) ==
    /\ \A s \in Sessions : sess[s].pc = "new"
    /\ create_part(quantity, minimum, active)

NextConc ==
    \/ \E q \in 0..MaxConcQty, m \in 0..MaxConcMin, a \in BOOLEAN :
          conc_create_part(q, m, a)
    \/ \E s \in Sessions, p \in PartIds, d \in ConcDeltas : usl_load(s, p, d)
    \/ \E s \in Sessions : usl_check(s)
    \/ \E s \in Sessions : usl_commit(s)
    \/ \E s \in Sessions, p \in PartIds, u \in ConcUpdates : up_load(s, p, u)
    \/ \E s \in Sessions : up_commit(s)
    \/ \E s \in Sessions : up_check(s)
    \/ \E s \in Sessions : up_resolve(s)
    \/ \E s \in Sessions : up_low(s)
    \/ \E s \in Sessions : up_insert(s)
    \/ \E s \in Sessions : up_return(s)
    \/ \E s \in Sessions : usl_refresh(s)
    \/ \E s \in Sessions, p \in PartIds : del_load(s, p)
    \/ \E s \in Sessions : del_commit(s)
    \/ \E s \in Sessions : run_background_task(s)

SpecConc == Init /\ [][NextConc]_vars

(***************************************************************************)
(* Claims checked under Spec (requests one at a time).                     *)
(***************************************************************************)
Present(p)  == p \in DOMAIN parts
Present1(p) == p \in DOMAIN parts'
Ok200 == response'.status = 200

\* The step is an update_stock_level request on part p, or an update_part
\* request on it that sets quantity_in_stock or minimum_stock_level.
StockRequest(p) ==
    \/ /\ response'.op = "update_stock_level"
       /\ \E d \in Deltas : update_stock_level(p, d)
    \/ /\ response'.op = "update_part"
       /\ \E u \in StockUpdates : update_part(p, u)

\* C1: with requests executed one at a time, every part has at most one
\* alert with is_active = true.
C1_AtMostOneActiveAlert ==
    \A p \in PartIds : Cardinality(active_alerts_of(alerts, p)) <= 1

\* A low part that keeps its one active alert beside an older resolved one,
\* after a further successful stock request.
C1_Witness ==
    \E p \in PartIds :
        /\ Present(p) /\ is_low_stock(parts[p])
        /\ Cardinality(active_alerts_of(alerts, p)) = 1
        /\ \E a \in alerts : a.part_id = p /\ a.is_resolved
        /\ response.op = "update_stock_level" /\ response.status = 200
        /\ background_tasks = <<>>

\* C3: the committed quantity_in_stock of every part is >= 0 after every
\* request, whether the request succeeded or failed.
C3_QuantityNeverNegative ==
    \A p \in DOMAIN parts : parts[p].quantity_in_stock >= 0

\* An overdraw was just refused on a part that holds stock.
C3_Witness ==
    /\ response.op = "update_stock_level" /\ response.status = 500
    /\ \E p \in DOMAIN parts : parts[p].quantity_in_stock > 0

\* C4: an update_stock_level request that would remove more than is in
\* stock fails (500) and changes nothing: quantity, alerts and the
\* notification tasks of the request stay as they were / empty.
C4_OverdrawChangesNothing ==
    [][\A p \in PartIds, d \in Deltas :
          (/\ Present(p) /\ parts[p].quantity_in_stock + d < 0
           /\ update_stock_level(p, d))
          => /\ response'.status = 500
             /\ parts' = parts
             /\ alerts' = alerts
             /\ nextAlertId' = nextAlertId
             /\ background_tasks' = <<>>]_vars

\* An overdraw was refused on a low part with an active alert.
C4_Witness ==
    /\ response.op = "update_stock_level" /\ response.status = 500
    /\ \E p \in DOMAIN parts :
          is_low_stock(parts[p]) /\ active_alerts_of(alerts, p) # {}

\* C5 (as claimed): after any completed update_stock_level or update_part
\* that leaves the part not low, the part has no active alert.
C5_NotLowMeansNoActiveAlert ==
    [][\A p \in PartIds :
          (/\ Ok200 /\ Present1(p) /\ ~is_low_stock(parts'[p])
           /\ StockRequest(p))
          => active_alerts_of(alerts', p) = {}]_vars

\* C6: a successful stock update that leaves the part low while it had no
\* active alert adds exactly one alert: active, not resolved, with
\* current_stock the new quantity and threshold_stock the minimum level;
\* the alerts that existed stay as they were.
C6_CreatesExactlyOneAlert ==
    [][\A p \in PartIds :
          (/\ Ok200 /\ Present1(p) /\ is_low_stock(parts'[p])
           /\ active_alerts_of(alerts, p) = {}
           /\ StockRequest(p))
          => /\ alerts \subseteq alerts'
             /\ Cardinality(alerts' \ alerts) = 1
             /\ \A a \in alerts' \ alerts :
                   /\ a.part_id = p
                   /\ a.is_active /\ ~a.is_resolved
                   /\ a.resolved_at = NoTime
                   /\ a.current_stock = parts'[p].quantity_in_stock
                   /\ a.threshold_stock = parts'[p].minimum_stock_level]_vars

\* A stock update took a part to 0 in stock with minimum 1 and the
\* alert (current_stock 0, threshold_stock 1) is there, with its task.
C6_Witness ==
    \E p \in DOMAIN parts :
        /\ response = [op |-> "update_stock_level", part_id |-> p,
                       status |-> 200]
        /\ parts[p].quantity_in_stock = 0 /\ parts[p].minimum_stock_level = 1
        /\ background_tasks = <<low_stock_task(p)>>
        /\ \E a \in alerts :
              /\ a.part_id = p /\ a.is_active
              /\ a.current_stock = 0 /\ a.threshold_stock = 1

\* C7: a positive delta that takes a low part with an active alert above
\* its minimum level commits the new quantity and resolves the alert in
\* the same request: is_active false, is_resolved true, resolved_at set.
C7_ReplenishResolves ==
    [][\A p \in PartIds, d \in Deltas :
          (/\ d > 0 /\ Present(p) /\ is_low_stock(parts[p])
           /\ parts[p].quantity_in_stock + d > parts[p].minimum_stock_level
           /\ update_stock_level(p, d))
          => /\ Ok200
             /\ parts'[p].quantity_in_stock = parts[p].quantity_in_stock + d
             /\ \A a \in active_alerts_of(alerts, p) :
                   \E b \in alerts' :
                      /\ b.id = a.id /\ b.part_id = p
                      /\ ~b.is_active /\ b.is_resolved
                      /\ b.resolved_at = now
                      /\ b.resolved_at # NoTime
             /\ AlertIds(alerts') = AlertIds(alerts)]_vars

\* A replenished part, not low any more, whose alert is resolved at the
\* current time.
C7_Witness ==
    \E p \in DOMAIN parts :
        /\ response = [op |-> "update_stock_level", part_id |-> p,
                       status |-> 200]
        /\ ~is_low_stock(parts[p]) /\ parts[p].minimum_stock_level > 0
        /\ now > 0
        /\ \E a \in alerts :
              a.part_id = p /\ a.is_resolved /\ ~a.is_active
                 /\ a.resolved_at = now

\* C8: calling check_stock_and_create_alert again for the same low part,
\* right after a call of it, adds no alert row and changes no alert.
C8_ReconcileIdempotent ==
    [][\A p \in PartIds :
          (/\ response = [op |-> "check_stock_and_create_alert",
                          part_id |-> p, status |-> 0]
           /\ Present(p) /\ is_low_stock(parts[p])
           /\ reconcile(p))
          => /\ alerts' = alerts
             /\ nextAlertId' = nextAlertId
             /\ background_tasks' = <<>>]_vars

\* The second of two calls in a row has run: the first had created the
\* alert (it is the only one), the second added no task.
C8_Witness ==
    \E p \in DOMAIN parts :
        /\ response = [op |-> "check_stock_and_create_alert",
                       part_id |-> p, status |-> 0]
        /\ is_low_stock(parts[p])
        /\ background_tasks = <<>>
        /\ Cardinality(active_alerts_of(alerts, p)) = 1

Range(seq) == {seq[i] : i \in DOMAIN seq}

\* C19 (as claimed): a part with is_active = false is left out of all
\* alerting: no request adds an alert for it, none enqueues a low-stock
\* notification for it, and the scheduled job never has it among the parts
\* it passes to the summary email.
C19_InactivePartsNotAlerted ==
    [][\A p \in PartIds :
          (Present1(p) /\ ~parts'[p].is_active)
          => /\ \A a \in alerts' \ alerts : a.part_id # p
             /\ (background_tasks' # background_tasks
                   => low_stock_task(p) \notin Range(background_tasks'))
             /\ (scheduled_alert_job => p \notin low_stock_parts')]_vars

\* C20 (as claimed): the parts the scheduled job gets from
\* get_low_stock_parts are exactly the parts whose is_low_stock is true
\* (quantity_in_stock <= minimum_stock_level and minimum_stock_level > 0);
\* a part with minimum_stock_level = 0 is never among them.
C20_OneLowStockDefinition ==
    [][(scheduled_alert_job /\ job'.query_ok)
          => low_stock_parts' =
               {p \in DOMAIN parts : is_low_stock(parts[p])}]_vars

(***************************************************************************)
(* Claims checked under SpecConc (requests in concurrent sessions).        *)
(***************************************************************************)
\* C2 (as claimed): when two stock-changing requests on the same part have
\* both finished successfully and the part is low, the part has at most
\* one active alert.
C2_NoDuplicateAlertWhenConcurrent ==
    \A p \in PartIds :
        (/\ \A s \in Sessions :
               /\ sess[s].pc = "closed" /\ sess[s].status = 200
               /\ sess[s].part_id = p
         /\ Present(p) /\ is_low_stock(parts[p]))
        => Cardinality(active_alerts_of(alerts, p)) <= 1

\* C15: a notification task runs only for a request that was answered
\* with success after the commit of its alert (a request whose commit
\* failed, or that failed after it, runs no task), and the run of the
\* task, whatever its outcome, leaves the committed parts and alerts as
\* they are.
C15_SendOnlyAfterCommit ==
    [][\A s \in Sessions :
          (/\ sess[s].pc = "closed" /\ sess[s].tasks # <<>>
           /\ sess'[s].tasks # sess[s].tasks
           /\ run_background_task(s))
          => /\ sess[s].status = 200
             /\ sess[s].inserted
             /\ ~sess[s].integrity_error
             /\ parts' = parts
             /\ alerts' = alerts
             /\ nextAlertId' = nextAlertId]_vars

\* The task of a request that committed a new alert has run and was
\* refused by the limiter check; the part and its alert are in place.
C15_Witness ==
    \E s \in Sessions :
        /\ sess[s].pc = "closed" /\ sess[s].status = 200
        /\ sess[s].inserted /\ sess[s].tasks = <<>>
        /\ notify_result = [part_id |-> sess[s].part_id,
                            outcome |-> "rate_limit_hit"]
        /\ Present(sess[s].part_id) /\ is_low_stock(parts[sess[s].part_id])
        /\ active_alerts_of(alerts, sess[s].part_id) # {}

\* C16 (as claimed): a request that changes a part and creates its
\* low-stock alert persists both in one transaction: while the alert of a
\* request is still to be inserted, its part change is not committed (not
\* visible to another session), also when the insert then fails.
C16_PartAndAlertInOneTransaction ==
    \A s \in Sessions :
        (sess[s].new_alert /\ ~sess[s].inserted) => ~sess[s].part_committed

\* C17 (as claimed): with update_stock_level requests only on a part, the
\* commit of each successful request takes the committed quantity to the
\* committed quantity plus its delta, so that after two concurrent requests
\* the quantity is the initial one plus both deltas.
C17_NoLostStockUpdate ==
    [][\A s \in Sessions :
          (/\ sess[s].pc = "usl_commit" /\ sess'[s].pc = "usl_refresh"
           /\ \A o \in Sessions :
                 sess[o].op \in {"none", "update_stock_level"}
           /\ usl_commit(s))
          => parts'[sess[s].part_id].quantity_in_stock
               = parts[sess[s].part_id].quantity_in_stock
                   + sess[s].quantity_change]_vars

PassedInWindow(key) ==
    IF key \notin DOMAIN email_limiter.last_sent
         \/ email_limiter.last_sent[key] < now - HourTicks
    THEN 0
    ELSE email_limiter.send_count[key]

\* C10 (as claimed): with max_per_hour = 5, an attempt for a key proceeds
\* to a send while fewer than 5 attempts passed in its hour window (the
\* first 5 of a window, the first of the next window), and the attempt
\* after 5 passed is suppressed with no send.
C10_FirstFiveSendSixthSuppressed ==
    [][\A p \in NotifyParts :
          send_low_stock_email_notification(p)
          => IF PassedInWindow(rate_key(p)) < MaxPerHour
             THEN send_calls'[rate_key(p)] = send_calls[rate_key(p)] + 1
             ELSE send_calls' = send_calls]_vars

(***************************************************************************)
(* Claims checked under SpecLimiter (the limiter shared by threads).       *)
(***************************************************************************)
\* The attempts that passed the limit in the hour that ends at time t.
PassedInHour(t) ==
    Cardinality({i \in DOMAIN passed_at :
                    passed_at[i] > t - HourTicks /\ passed_at[i] <= t})

\* C11 (as claimed): access to the counters of a key is serialized; with
\* attempts for the same key on several threads, the number of attempts
\* that pass the limit check within one hour never exceeds max_per_hour.
C11_NeverMoreThanMaxPerHour ==
    \A t \in 0..MaxRaceTime : PassedInHour(t) <= MaxPerHour

(***************************************************************************)
(* Claims checked under SpecSend (send_email_with_retry).                  *)
(***************************************************************************)
Transient == {"SMTPServerDisconnected", "SMTPException", "TimeoutError"}
Last(seq) == seq[Len(seq)]

\* C12: on transient transport failures send_email_with_retry makes at most
\* 3 attempts, stops at the first success (no attempt follows a success),
\* gives up by raising only after the 3rd failure, and waits between
\* consecutive attempts 1s, then 2s: each delay the double of the one
\* before.
C12_RetryWithBackoff ==
    /\ Len(mail.outcomes) <= max_retries
    /\ \A i \in 1..(Len(mail.outcomes) - 1) : mail.outcomes[i] # "sent"
    /\ mail.pc = "raised" => Len(mail.outcomes) = max_retries
    /\ (mail.pc \in {"returned", "raised", "sleep"})
          => Len(mail.sleeps) = Len(mail.outcomes) - 1
    /\ mail.pc = "attempt" => Len(mail.sleeps) = Len(mail.outcomes)
    /\ \A i \in DOMAIN mail.sleeps :
          /\ mail.outcomes[i] \in Transient \cup {"ValueError"}
          /\ IF i = 1 THEN mail.sleeps[i] = 1
             ELSE mail.sleeps[i] = 2 * mail.sleeps[i - 1]

\* The server dropped the connection twice and took the mail at the third
\* attempt, after waits of 1 and 2.
C12_Witness ==
    /\ mail.pc = "returned"
    /\ mail.outcomes = <<"SMTPServerDisconnected", "SMTPServerDisconnected",
                         "sent">>
    /\ mail.sleeps = <<1, 2>>

\* C13 (as claimed): when an attempt fails with SMTPAuthenticationError no
\* further attempt is made and the failure is surfaced to the caller: the
\* call does not return as it does after a successful send.
C13_AuthFailureSurfaced ==
    /\ \A i \in 1..(Len(mail.outcomes) - 1) :
          mail.outcomes[i] # "SMTPAuthenticationError"
    /\ mail.pc = "returned" => Last(mail.outcomes) = "sent"

C21_NoLowStockNoEmail ==
    [][(/\ jobVars' # jobVars
        /\ job'.query_ok
        /\ low_stock_parts' = {}
        /\ scheduled_alert_job)
          => /\ job'.send_attempts = 0
             /\ ~job'.logged_error
             /\ job'.ended = "returned"]_vars

\* A run found parts in the table, none of them low, and ended.
C21_Witness ==
    /\ job.ran /\ job.query_ok
    /\ low_stock_parts = {}
    /\ DOMAIN parts # {}
    /\ job.send_attempts = 0
    /\ job.ended = "returned"

\* C22 (SpecSched): a run of the job that raises is contained: it leaves
\* the scheduler in the state it was in, with the fire times that are due,
\* and when a firing arrives on time after such a run, with the scheduler
\* running and no run in progress, a run starts.
C22_ThrowingRunContained ==
    [][/\ run_ends("raised")
            => /\ sched'.state = sched.state
               /\ sched'.due = sched.due
               /\ sched'.last_run = "raised"
       /\ (/\ sched.last_run = "raised"
           /\ sched.executing = 0
           /\ process_jobs(FALSE))
            => /\ sched'.executing = 1
               /\ sched'.runs = sched.runs + 1
               /\ sched'.state = "running"]_vars

\* A run is in progress that was started after a run that raised.
C22_Witness ==
    /\ sched.last_run = "raised"
    /\ sched.state = "running"
    /\ sched.executing = 1
    /\ sched.runs >= 2

\* C23 (SpecSched): never are two runs of the job executing; a firing that
\* arrives while a run is in progress starts no run; fire times that were
\* missed start one run together, with no run queued behind it.
C23_NoConcurrentRuns ==
    [][/\ sched'.executing <= 1
       /\ sched'.backlog = 0
       /\ \A late \in BOOLEAN :
             (sched.executing = 1 /\ process_jobs(late))
               => /\ sched'.runs = sched.runs
                  /\ sched'.executing = 1
       /\ (sched.executing = 0 /\ sched.due > 1 /\ process_jobs(FALSE))
            => /\ sched'.runs = sched.runs + 1
               /\ sched'.executing = 1
               /\ sched'.due = 0]_vars

\* A firing was dropped because a run was in progress, and a run was
\* started for several missed fire times at once.
C23_Witness ==
    /\ sched.skipped
    /\ sched.coalesced
    /\ sched.executing = 1

\* C24 (as claimed): once the application has shut down, the scheduler
\* started at startup is stopped and no run of the job is in progress.
C24_ShutdownStopsScheduler ==
    app.state = "stopped"
      => /\ sched.state = "stopped"
         /\ sched.executing = 0

\* C25 (as claimed): a missing mail setting is not found per send: a send
\* to a valid address with a required setting missing never has an attempt
\* that failed and was followed by a wait and another attempt.
C25_MissingSettingNotRetried ==
    (mail.to_email_ok /\ ~mail.settings_ok)
      => /\ mail.sleeps = <<>>
         /\ mail.attempt = 0

(***************************************************************************)
(* Claims checked under SpecSummary.                                       *)
(***************************************************************************)
\* The alerts of the active parts of the table.
alerts_of_active_parts(partRows, alertRows) ==
    {a \in alertRows : /\ a.part_id \in DOMAIN partRows
                       /\ partRows[a.part_id].is_active}

\* C26 (as claimed): get_alert_summary returns the numbers of all, of the
\* active and of the resolved alerts, the number of active critical parts
\* with 1 <= quantity_in_stock <= minimum_stock_level and the number of
\* parts with quantity 0, each of the five counted over the parts with
\* is_active = true only.
C26_SummaryCountsActivePartsOnly ==
    [][get_alert_summary_request
         => LET counted == alerts_of_active_parts(parts, alerts)
                active == {p \in DOMAIN parts : parts[p].is_active}
            IN /\ summary'.total_alerts = Cardinality(counted)
               /\ summary'.active_alerts =
                    Cardinality({a \in counted : a.is_active})
               /\ summary'.resolved_alerts =
                    Cardinality({a \in counted : a.is_resolved})
               /\ summary'.critical_parts_low =
                    Cardinality({p \in active :
                        /\ p \in critical
                        /\ 1 <= parts[p].quantity_in_stock
                        /\ parts[p].quantity_in_stock
                             <= parts[p].minimum_stock_level})
               /\ summary'.out_of_stock_parts =
                    Cardinality({p \in active :
                        parts[p].quantity_in_stock = 0})]_vars

(***************************************************************************)
(* Further claims checked under Spec (requests one at a time).             *)
(***************************************************************************)
\* C27 (as claimed): between requests every active part that is low on
\* stock has an active alert, whichever request made it low.
C27_LowActivePartHasActiveAlert ==
    \A p \in DOMAIN parts :
        (parts[p].is_active /\ is_low_stock(parts[p]))
          => active_alerts_of(alerts, p) # {}

\* An alert is open, or it is resolved.
IsOpen(a) == a.is_active /\ ~a.is_resolved /\ a.resolved_at = NoTime
IsResolved(a) == ~a.is_active /\ a.is_resolved /\ a.resolved_at # NoTime

\* C28 (Spec): every alert is either open (active, not resolved, no
\* resolved_at) or resolved (not active, resolved, resolved_at set); an
\* alert that is resolved is never active again; and the summary has
\* total_alerts = active_alerts + resolved_alerts.
C28_OpenOrResolvedForGood ==
    [][/\ \A a \in alerts' : IsOpen(a) \/ IsResolved(a)
       /\ \A a \in alerts : \A b \in alerts' :
             (b.id = a.id /\ a.is_resolved) => IsResolved(b)
       /\ LET s == get_alert_summary(parts', alerts', critical')
          IN s.total_alerts = s.active_alerts + s.resolved_alerts]_vars

\* A part has a resolved alert and, created later, an open one.
C28_Witness ==
    \E a, b \in alerts :
        /\ a.part_id = b.part_id
        /\ a.id < b.id
        /\ IsResolved(a)
        /\ IsOpen(b)

(***************************************************************************)
(* Further claims checked under SpecLimiter.                               *)
(***************************************************************************)
\* The attempts that passed the limit in the hour before time t, the
\* attempt made exactly an hour before included.
PassedInHourBefore(t) ==
    Cardinality({i \in DOMAIN passed_at :
                    passed_at[i] >= t - HourTicks /\ passed_at[i] <= t})

\* C29 (as claimed): the limiter refuses an attempt for a key only when
\* max_per_hour attempts for the key have passed within the hour before
\* it.  Stated for an attempt made while no other thread is inside the
\* limiter, and refused at the time it was made.
C29_RefusedOnlyWhenHourIsFull ==
    [][\A th \in Threads :
          (/\ threads[th].pc = "read"
           /\ threads[th].now = now
           /\ \A other \in Threads \ {th} : threads[other].pc = "idle"
           /\ lim_read(th)
           /\ threads'[th].returns = "False")
            => PassedInHourBefore(now) >= MaxPerHour]_vars

(***************************************************************************)
(* Further claims checked under SpecConc.                                  *)
(***************************************************************************)
\* C30 (as claimed): when the handler of a stock-changing request is done
\* with the database, a low-stock notification is in its BackgroundTasks
\* if and only if the request inserted a new alert (none when the insert
\* was rolled back), never more than one, and a request that was answered
\* keeps a task only if it inserted an alert and succeeded.
C30_EnqueuedIffInserted ==
    \A s \in Sessions :
        /\ Len(sess[s].tasks) <= 1
        /\ sess[s].pc \in {"up_return", "usl_refresh"}
             => (sess[s].tasks # <<>> <=> sess[s].inserted)
        /\ (sess[s].pc = "closed" /\ sess[s].tasks # <<>>)
             => (sess[s].inserted /\ sess[s].status = 200)

=============================================================================
